---- MODULE Spec2Model ----
(***************************************************************************)
(* Model of src/src/components/EKGExam2Game.tsx: the synthetic ECG strip   *)
(* generators (genNormalBeat, genSinusStrip, genAflutter, genAfib,         *)
(* buildStrip) and the window/projection helpers (cropPoints, toPath,      *)
(* ZoomStrip), the quiz engine (useQuiz) and the mode and countdown state   *)
(* of the EKGExam2Game component.                                          *)
(*                                                                         *)
(* Number representation.  The source computes with JavaScript numbers.    *)
(* Every time-position the modelled calls produce is a multiple of 1/1000  *)
(* pixel, so positions and amplitudes are integers counted in 1/Scale of   *)
(* a pixel; seconds are counted in milliseconds and sampling densities in  *)
(* tenths of a pixel per second.  Math.sin is the one inexact function: it *)
(* is computed by Bhaskara's rational approximation (absolute error below  *)
(* 0.002), which keeps its sign, its zero at t = 0 and its range.          *)
(***************************************************************************)
EXTENDS Integers, Sequences, FiniteSets, TLC

VARIABLES
  pc,         \* position of the Strip render: idle, compose, built, cropped
  kind,       \* StripKind handed to buildStrip
  cursor,     \* the composer loop's cursor (1/Scale px)
  beatIndex,  \* number of loop iterations done by the running composer
  points,     \* the Point[] under construction / returned by buildStrip
  draws,      \* the Math.random() stream consumed by genAfib's baseline walk
  win,        \* [start, end] handed to cropPoints
  cropped,    \* result of cropPoints
  path,       \* result of toPath
  beatIn,     \* arguments of a direct genNormalBeat call
  beat,       \* result of that call
  mode,       \* EKGExam2Game: "practice" or "timed"
  timeLeft,   \* EKGExam2Game: seconds left on the countdown
  timerOn,    \* the window.setInterval of the countdown effect is registered
  pending,    \* a commit whose passive effects have not run yet
  engine,     \* the question set handed to useQuiz, as its answer keys
  index,      \* useQuiz: position in the question set
  correct,    \* useQuiz: score
  answered    \* useQuiz: option picked on the current question, or Null

stripVars == <<pc, kind, cursor, beatIndex, points, draws, win, cropped, path, beatIn, beat>>
gameVars == <<mode, timeLeft, timerOn, pending, engine, index, correct, answered>>
vars == <<stripVars, gameVars>>

-----------------------------------------------------------------------------
(* Time base *)

Scale == 1000
SMALL_BOX == 5
PX_PER_SEC == SMALL_BOX * 25
STRIP_SECONDS == 6
STRIP_WIDTH == PX_PER_SEC * STRIP_SECONDS
Baseline == 90

Max(a, b) == IF a >= b THEN a ELSE b
Min(a, b) == IF a <= b THEN a ELSE b
Abs(a) == IF a >= 0 THEN a ELSE -a

\* Math.floor / Math.ceil of v/d for d > 0 (\div rounds toward minus infinity)
FloorDiv(v, d) == v \div d
CeilDiv(v, d) == -((-v) \div d)

\* seconds (ms) * density (tenths of px per second) -> 1/Scale px
Px(ms, density10) == (ms * density10) \div 10

\* Math.sin(t * Math.PI) for t = tm/1000 in [0, 1), in thousandths
SinPi(tm) ==
  LET s == tm * (1000 - tm)
  IN  (1600 * s) \div (500000 - (4 * s) \div 10)

\* number of iterations of  for (let i = 0; i < duration; i++)
LoopCount(duration) == IF duration <= 0 THEN 0 ELSE CeilDiv(duration, Scale)

-----------------------------------------------------------------------------
(* genNormalBeat *)

\* const { amp = 22, pr = 0.16, qrs = 0.08, stElevation = 0, tPolarity = 1 }
DefaultOptions == [amp |-> 22 * Scale, pr |-> 160, qrs |-> 80, stElevation |-> 0, tPolarity |-> 1]

\* a Point [x, y]; seg names the loop that pushed it (an annotation, not data)
Point(x, y, seg) == [x |-> x, y |-> y, seg |-> seg]

\* mutant of prSegmentOf: the whole PR interval used as the segment's length
prSegmentWholePR(pr, pxPerSec) == Px(Max(0, pr), pxPerSec)

pDurationOf(pxPerSec) == Px(80, pxPerSec)
prSegmentOf(pr, pxPerSec) == Px(Max(0, pr - 80), pxPerSec)
qrsDurationOf(qrs, pxPerSec) == Px(qrs, pxPerSec)
stSegmentOf(pxPerSec) == Px(80, pxPerSec)
tDurationOf(pxPerSec) == Px(160, pxPerSec)
returnDurationOf(pxPerSec) == Px(40, pxPerSec)

\* mutant of QrsShape: the spike phase scaled by 1.0 instead of 1.2
QrsShapeUnitSpike(i, qrsDuration) ==
  IF i * Scale * 100 < 15 * qrsDuration THEN -3
  ELSE IF i * Scale * 100 < 50 * qrsDuration THEN 10
  ELSE IF i * Scale * 100 < 85 * qrsDuration THEN -4
  ELSE 0

\* shape = t < 0.15 ? -0.3 : t < 0.5 ? 1.2 : t < 0.85 ? -0.4 : 0, in tenths,
\* for t = i / qrsDuration
QrsShape(i, qrsDuration) ==
  IF i * Scale * 100 < 15 * qrsDuration THEN -3
  ELSE IF i * Scale * 100 < 50 * qrsDuration THEN 12
  ELSE IF i * Scale * 100 < 85 * qrsDuration THEN -4
  ELSE 0

PWave(x0, pDuration, amp) ==
  [k \in 1..LoopCount(pDuration) |->
     LET i == k - 1
         tm == (i * Scale * 1000) \div pDuration
     IN  Point(x0 + i * Scale,
               Baseline * Scale - (SinPi(tm) * ((amp * 25) \div 100)) \div 1000, "P")]

PRSegment(x0, pDuration, prSegment) ==
  [k \in 1..LoopCount(prSegment) |->
     Point(x0 + pDuration + (k - 1) * Scale, Baseline * Scale, "PR")]

QRS(start, qrsDuration, amp) ==
  [k \in 1..LoopCount(qrsDuration) |->
     Point(start + (k - 1) * Scale,
           Baseline * Scale - (QrsShape(k - 1, qrsDuration) * amp) \div 10, "QRS")]

STSegment(start, stSegment, stElevation) ==
  [k \in 1..LoopCount(stSegment) |->
     Point(start + (k - 1) * Scale, Baseline * Scale - stElevation, "ST")]

TWave(start, tDuration, amp, tPolarity) ==
  [k \in 1..LoopCount(tDuration) |->
     LET i == k - 1
         tm == (i * Scale * 1000) \div tDuration
     IN  Point(start + i * Scale,
               Baseline * Scale
                 - ((SinPi(tm) * ((amp * 40) \div 100)) \div 1000) * tPolarity, "T")]

\* mutant of ReturnToBaseline: the return segment placed at the T wave's start
ReturnToBaselineAtCursor(start, tDuration, returnDuration) ==
  [k \in 1..LoopCount(returnDuration) |->
     Point(start + (k - 1) * Scale, Baseline * Scale, "R")]

ReturnToBaseline(start, tDuration, returnDuration) ==
  [k \in 1..LoopCount(returnDuration) |->
     Point(start + tDuration + (k - 1) * Scale, Baseline * Scale, "R")]

genNormalBeat(x0, pxPerSec, options) ==
  LET pDuration == pDurationOf(pxPerSec)
      prSegment == prSegmentOf(options.pr, pxPerSec)
      cursor1 == x0 + pDuration + prSegment
      qrsDuration == qrsDurationOf(options.qrs, pxPerSec)
      cursor2 == cursor1 + qrsDuration
      stSegment == stSegmentOf(pxPerSec)
      cursor3 == cursor2 + stSegment
      tDuration == tDurationOf(pxPerSec)
      returnDuration == returnDurationOf(pxPerSec)
  IN  PWave(x0, pDuration, options.amp)
        \o PRSegment(x0, pDuration, prSegment)
        \o QRS(cursor1, qrsDuration, options.amp)
        \o STSegment(cursor2, stSegment, options.stElevation)
        \o TWave(cursor3, tDuration, options.amp, options.tPolarity)
        \o ReturnToBaseline(cursor3, tDuration, returnDuration)

-----------------------------------------------------------------------------
(* Rhythm composers *)

StripKinds == {"sinus", "sinus_brady", "sinus_tachy", "aflutter", "afib", "sinus_pac",
               "psvt", "junctional", "firstdeg", "stemi_inferior", "nstemi"}
SinusKinds == {"sinus", "sinus_brady", "sinus_tachy"}

\* the rate buildStrip hands to genSinusStrip (the last line is the fallback)
SinusBpm(k) ==
  CASE k = "sinus" -> 75
    [] k = "sinus_brady" -> 48
    [] k = "sinus_tachy" -> 120
    [] OTHER -> 75

\* mutant of SinusInterval: the interval truncated to whole pixels
SinusIntervalWholePixels(bpm) == ((60 * PX_PER_SEC) \div bpm) * Scale

\* rr * PX_PER_SEC for rr = 60 / bpm
SinusInterval(bpm) == (60 * PX_PER_SEC * Scale) \div bpm

\* the loop condition shared by every tiling composer: cursor < STRIP_WIDTH - 10
InStrip(c) == c < (STRIP_WIDTH - 10) * Scale

\* a beat's samples, each annotated with the ordinal b of the beat
Tagged(samples, b) ==
  [j \in 1..Len(samples) |->
     [x |-> samples[j].x, y |-> samples[j].y, seg |-> samples[j].seg, b |-> b]]

\* earlyOffset = beatIndex === 2 ? Math.max(-cursor + 2, -0.3 * PX_PER_SEC) : 0
EarlyOffset(c, bi) ==
  IF bi = 2 THEN Max(-c + 2 * Scale, -((3 * PX_PER_SEC * Scale) \div 10)) ELSE 0

\* per-kind arguments of the tiling loops of buildStrip: the beat's start, the
\* sampling density (tenths of px/s), the options, and the cursor increment
BeatStart(k, c, bi) == IF k = "sinus_pac" THEN c + EarlyOffset(c, bi) ELSE c

BeatDensity(k) == IF k = "psvt" THEN (PX_PER_SEC * 10 * 7) \div 10 ELSE PX_PER_SEC * 10

BeatOptionsOf(k) ==
  CASE k = "sinus_pac" -> [DefaultOptions EXCEPT !.pr = 140]
    [] k = "psvt" -> [DefaultOptions EXCEPT !.amp = 18 * Scale, !.pr = 100, !.qrs = 60]
    [] k = "junctional" -> [DefaultOptions EXCEPT !.amp = 16 * Scale, !.pr = 60, !.tPolarity = -1]
    [] k = "firstdeg" -> [DefaultOptions EXCEPT !.pr = 260]
    [] k = "stemi_inferior" -> [DefaultOptions EXCEPT !.stElevation = -6 * Scale]
    [] k = "nstemi" -> [DefaultOptions EXCEPT !.stElevation = 3 * Scale, !.tPolarity = -1]
    [] OTHER -> DefaultOptions

BeatInterval(k) ==
  CASE k \in SinusKinds -> SinusInterval(SinusBpm(k))
    [] k = "psvt" -> (4 * PX_PER_SEC * Scale) \div 10
    [] k = "junctional" -> (10 * PX_PER_SEC * Scale) \div 10
    [] OTHER -> (8 * PX_PER_SEC * Scale) \div 10

-----------------------------------------------------------------------------
(* genAflutter and genAfib *)

AFLUTTER_AMP == 18
AFLUTTER_RATE == 300

\* pixelsPerWave = width * (60 / rate)
PixelsPerWave(width) == (width * Scale * 60) \div AFLUTTER_RATE

\* y = baseline - Math.abs(wavePosition - 0.5) * 2 * amp * 0.5
\* for wavePosition = (i % pixelsPerWave) / pixelsPerWave
FlutterY(i, width) ==
  LET ppw == PixelsPerWave(width)
      r == (i * Scale) % ppw
  IN  Baseline * Scale
        - ((Abs(2 * r - ppw) \div Scale) * (AFLUTTER_AMP * Scale)) \div ((2 * ppw) \div Scale)

FlutterBaseline(width) ==
  [j \in 1..width |-> [x |-> (j - 1) * Scale, y |-> FlutterY(j - 1, width), seg |-> "base", b |-> 0]]

\* 90 - (k < 0.02 * width ? -4 : k < 0.04 * width ? 20 : -6)
FlutterBeatY(k, width) ==
  Baseline * Scale
    - (IF k * 100 < 2 * width THEN -4 ELSE IF k * 100 < 4 * width THEN 20 ELSE -6) * Scale

\* 90 - (k < 0.02 * width ? -4 : k < 0.03 * width ? 18 : -6)
FibBeatY(k, width) ==
  Baseline * Scale
    - (IF k * 100 < 2 * width THEN -4 ELSE IF k * 100 < 3 * width THEN 18 ELSE -6) * Scale

\* the k of  for (let k = 0; k < 0.08 * width; k++)
FlutterWindow(width) == 0..(CeilDiv(8 * width, 100) - 1)

\* index = Math.min(points.length - 1, Math.floor(start + k))
FlutterIndex(pts, start, k) == Min(Len(pts) - 1, FloorDiv(start + k * Scale, Scale))

\* mutant of FibWindow: the loop without its  cursor + k < width  test
FibWindowUnguarded(c, width) == 0..(CeilDiv(6 * width, 100) - 1)

\* the k of  for (let k = 0; k < 0.06 * width && cursor + k < width; k++)
FibWindow(c, width) ==
  {k \in 0..(CeilDiv(6 * width, 100) - 1) : c + k * Scale < width * Scale}

\* index = Math.floor(cursor + k)
FibIndex(c, k) == FloorDiv(c + k * Scale, Scale)

\* points[index][1] = y for every k of the window, in increasing k: the value
\* left at an index is the one written by the largest k that maps to it
\* writes maps each k of the window to the index and the y of its assignment
Overwrite(pts, writes, b) ==
  [j \in 1..Len(pts) |->
     LET ks == {k \in DOMAIN writes : writes[k].index = j - 1}
     IN  IF ks = {} THEN pts[j]
         ELSE LET k == CHOOSE m \in ks : \A n \in ks : n <= m
              IN  [pts[j] EXCEPT !.y = writes[k].y, !.seg = "beat", !.b = b]]

\* Math.random() streams for the fibrillatory baseline, as the thousandths
\* rand(-1.2, 1.2) returns on the j-th draw
WalkPatterns == {"low", "zigzag"}
WalkStep(pattern, j) ==
  CASE pattern = "low" -> -1200
    [] pattern = "zigzag" -> IF j % 2 = 0 THEN -1200 ELSE 1199

\* for (let i = 0; i < width; i++) { y += rand(-1.2, 1.2); points.push([i, y]); }
\* y after the draws 0..i have been added to 90: every pattern repeats with
\* period two, so the running sum is counted draw by draw in closed form
WalkY(pattern, i) ==
  Baseline * Scale + ((i + 2) \div 2) * WalkStep(pattern, 0)
                   + ((i + 1) \div 2) * WalkStep(pattern, 1)

FibBaseline(width, pattern) ==
  [j \in 1..width |-> [x |-> (j - 1) * Scale, y |-> WalkY(pattern, j - 1), seg |-> "base", b |-> 0]]

\* rand(0.5, 1.1) in thousandths, and rr = rand(0.5, 1.1) * width * 0.2
RRFactors == {500, 1099}
\* the loop ends after at most ceil(width / (0.5 * width * 0.2)) = 10 beats
MaxFibBeats == 10
FibRR(factor, width) == (factor * width * 2) \div 10

-----------------------------------------------------------------------------
(* cropPoints and toPath *)

\* mutant of InWindow: the window's end excluded
InWindowHalfOpen(p, start, end) == p.x >= start /\ p.x < end

\* points.filter(([x]) => x >= start && x <= end).map(([x, y]) => [x - start, y])
InWindow(p, start, end) == p.x >= start /\ p.x <= end

Rebase(p, start) == [p EXCEPT !.x = @ - start]

\* mutant of cropPoints: re-based on the first retained sample, not on start
cropPointsFromFirst(pts, start, end) ==
  LET kept == SelectSeq(pts, LAMBDA p : p.x >= start /\ p.x <= end)
  IN  [j \in 1..Len(kept) |-> [kept[j] EXCEPT !.x = @ - kept[1].x]]

cropPoints(pts, start, end) ==
  LET kept == SelectSeq(pts, LAMBDA p : InWindow(p, start, end))
  IN  [j \in 1..Len(kept) |-> Rebase(kept[j], start)]

\* mutant of PathOp: the move command issued for index 1 instead of 0
PathOpFromOne(idx) == IF idx = 1 THEN "M" ELSE "L"

\* `${idx === 0 ? "M" : "L"}${x},${y}`
PathOp(idx) == IF idx = 0 THEN "M" ELSE "L"

PathCommand(p, idx) == [tok |-> PathOp(idx), args |-> <<p.x, p.y>>]

Separator == [tok |-> " ", args |-> <<>>]

\* points.map(...).join(" "): the commands with one separator between neighbours
toPath(pts) ==
  [t \in 1..(IF Len(pts) = 0 THEN 0 ELSE 2 * Len(pts) - 1) |->
     IF t % 2 = 1 THEN PathCommand(pts[(t + 1) \div 2], (t - 1) \div 2) ELSE Separator]

\* ZoomStrip: start = STRIP_WIDTH * 0.32, end = start + seconds * PX_PER_SEC
ZoomSeconds == 1200
ZoomStart == (STRIP_WIDTH * Scale * 32) \div 100
ZoomEnd(seconds) == ZoomStart + Px(seconds, PX_PER_SEC * 10)

-----------------------------------------------------------------------------
(* The Strip component: buildStrip(kind), toPath(points), then ZoomStrip *)

NoWindow == [start |-> 0, end |-> 0]
NoBeatIn == [x0 |-> 0, pxPerSec |-> 0, options |-> DefaultOptions]

\* answered is number | null: null is written Null, no option index
Null == -1

\* the QUESTIONS table, as the answer key of each question; every question
\* offers four options
QUESTIONS == [q \in 1..11 |-> 0]
Options == 0..3

TIMED_SECONDS == 180

\* nothing has been rendered or called yet
StripIdle ==
  /\ pc = "idle"
  /\ kind = "none"
  /\ cursor = 0
  /\ beatIndex = 0
  /\ points = <<>>
  /\ draws = "none"
  /\ win = NoWindow
  /\ cropped = <<>>
  /\ path = <<>>
  /\ beatIn = NoBeatIn
  /\ beat = <<>>

\* the useState initial values of useQuiz
QuizStart ==
  /\ index = 0
  /\ correct = 0
  /\ answered = Null

\* EKGExam2Game is mounted: practice mode over QUESTIONS, no interval
GameStart ==
  /\ mode = "practice"
  /\ timeLeft = TIMED_SECONDS
  /\ timerOn = FALSE
  /\ pending = FALSE
  /\ engine = QUESTIONS
  /\ QuizStart

Init == StripIdle /\ GameStart

\* buildStrip(kind) is entered: the composer's locals are initialised
\* (let cursor = 10; the flutter and fibrillation generators first lay down
\* their baseline and start their beat loop at 0)
StartCursor(k) == IF k \in {"aflutter", "afib"} THEN 0 ELSE 10 * Scale

Strip(k) ==
  /\ pc = "idle"
  /\ k \in StripKinds
  /\ pc' = "compose"
  /\ kind' = k
  /\ cursor' = StartCursor(k)
  /\ beatIndex' = 0
  /\ \E pattern \in WalkPatterns :
       /\ draws' = IF k = "afib" THEN pattern ELSE "none"
       /\ points' = CASE k = "aflutter" -> FlutterBaseline(STRIP_WIDTH)
                      [] k = "afib" -> FibBaseline(STRIP_WIDTH, pattern)
                      [] OTHER -> <<>>
  /\ win' = NoWindow
  /\ cropped' = <<>>
  /\ path' = <<>>
  /\ UNCHANGED <<beatIn, beat>>
  /\ UNCHANGED gameVars

\* one iteration of genSinusStrip's while loop
genSinusStripStep ==
  /\ pc = "compose"
  /\ kind \in SinusKinds
  /\ InStrip(cursor)
  /\ points' = points \o Tagged(genNormalBeat(cursor, PX_PER_SEC * 10, DefaultOptions),
                                beatIndex + 1)
  /\ cursor' = cursor + SinusInterval(SinusBpm(kind))
  /\ beatIndex' = beatIndex + 1
  /\ UNCHANGED <<pc, kind, draws, win, cropped, path, beatIn, beat>>
  /\ UNCHANGED gameVars

\* one iteration of a tiling while loop written out in buildStrip
buildStripStep ==
  /\ pc = "compose"
  /\ kind \in StripKinds \ (SinusKinds \cup {"aflutter", "afib"})
  /\ InStrip(cursor)
  /\ points' = points \o Tagged(genNormalBeat(BeatStart(kind, cursor, beatIndex),
                                              BeatDensity(kind), BeatOptionsOf(kind)),
                                beatIndex + 1)
  /\ cursor' = cursor + BeatInterval(kind)
  /\ beatIndex' = beatIndex + 1
  /\ UNCHANGED <<pc, kind, draws, win, cropped, path, beatIn, beat>>
  /\ UNCHANGED gameVars

\* one iteration of genAflutter's conducted-beat loop
genAflutterStep ==
  /\ pc = "compose"
  /\ kind = "aflutter"
  /\ cursor < STRIP_WIDTH * Scale
  /\ points' = Overwrite(points,
                         [k \in FlutterWindow(STRIP_WIDTH) |->
                            [index |-> FlutterIndex(points, cursor, k),
                             y |-> FlutterBeatY(k, STRIP_WIDTH)]],
                         beatIndex + 1)
  /\ cursor' = cursor + 4 * PixelsPerWave(STRIP_WIDTH)
  /\ beatIndex' = beatIndex + 1
  /\ UNCHANGED <<pc, kind, draws, win, cropped, path, beatIn, beat>>
  /\ UNCHANGED gameVars

\* one iteration of genAfib's while (cursor < width) loop
genAfibStep ==
  /\ pc = "compose"
  /\ kind = "afib"
  /\ cursor < STRIP_WIDTH * Scale
  /\ beatIndex < MaxFibBeats
  /\ \E factor \in RRFactors :
       /\ points' = Overwrite(points,
                              [k \in FibWindow(cursor, STRIP_WIDTH) |->
                                 [index |-> FibIndex(cursor, k),
                                  y |-> FibBeatY(k, STRIP_WIDTH)]],
                              beatIndex + 1)
       /\ cursor' = cursor + FibRR(factor, STRIP_WIDTH)
  /\ beatIndex' = beatIndex + 1
  /\ UNCHANGED <<pc, kind, draws, win, cropped, path, beatIn, beat>>
  /\ UNCHANGED gameVars

\* the composer's loop condition fails: buildStrip returns points
LoopDone ==
  IF kind \in {"aflutter", "afib"} THEN cursor >= STRIP_WIDTH * Scale ELSE ~InStrip(cursor)

Return ==
  /\ pc = "compose"
  /\ LoopDone
  /\ pc' = "built"
  /\ UNCHANGED <<kind, cursor, beatIndex, points, draws, win, cropped, path, beatIn, beat>>
  /\ UNCHANGED gameVars

\* <path d={toPath(points)} .../> of Strip
StripPath ==
  /\ pc = "built"
  /\ path' = toPath(points)
  /\ pc' = "drawn"
  /\ UNCHANGED <<kind, cursor, beatIndex, points, draws, win, cropped, beatIn, beat>>
  /\ UNCHANGED gameVars

\* <ZoomStrip pts={points} seconds={1.2} />: cropPoints, then toPath(cropped)
ZoomStrip ==
  /\ pc = "drawn"
  /\ win' = [start |-> ZoomStart, end |-> ZoomEnd(ZoomSeconds)]
  /\ cropped' = cropPoints(points, ZoomStart, ZoomEnd(ZoomSeconds))
  /\ path' = toPath(cropPoints(points, ZoomStart, ZoomEnd(ZoomSeconds)))
  /\ pc' = "zoomed"
  /\ UNCHANGED <<kind, cursor, beatIndex, points, draws, beatIn, beat>>
  /\ UNCHANGED gameVars

\* the question changes: Strip is rendered again with another kind
NextQuestion ==
  /\ pc = "zoomed"
  /\ pc' = "idle"
  /\ kind' = "none"
  /\ cursor' = 0
  /\ beatIndex' = 0
  /\ points' = <<>>
  /\ draws' = "none"
  /\ win' = NoWindow
  /\ cropped' = <<>>
  /\ path' = <<>>
  /\ UNCHANGED <<beatIn, beat>>
  /\ UNCHANGED gameVars

Next ==
  \/ \E k \in StripKinds : Strip(k)
  \/ genSinusStripStep
  \/ buildStripStep
  \/ genAflutterStep
  \/ genAfibStep
  \/ Return
  \/ StripPath
  \/ ZoomStrip
  \/ NextQuestion

Spec == Init /\ [][Next]_vars

-----------------------------------------------------------------------------
(* genNormalBeat called directly, on arguments drawn from bounded sets *)

BeatX0s == {0, 10 * Scale, 166250, 172500}
BeatDensities == {10, 875, 1250, 2500}
BeatPRs == {0, 60, 80, 100, 140, 160, 260}
BeatQRSs == {0, 60, 80, 120}
BeatAmps == {16 * Scale, 22 * Scale}

SampleBeat ==
  /\ pc = "idle"
  /\ pc' = "sampled"
  /\ \E x0 \in BeatX0s, d \in BeatDensities, pr \in BeatPRs, qrs \in BeatQRSs, amp \in BeatAmps :
       LET options == [DefaultOptions EXCEPT !.pr = pr, !.qrs = qrs, !.amp = amp]
       IN  /\ beatIn' = [x0 |-> x0, pxPerSec |-> d, options |-> options]
           /\ beat' = genNormalBeat(x0, d, options)
  /\ UNCHANGED <<kind, cursor, beatIndex, points, draws, win, cropped, path>>
  /\ UNCHANGED gameVars

NextBeat == SampleBeat

SpecBeat == Init /\ [][NextBeat]_vars

-----------------------------------------------------------------------------
(* genNormalBeat called directly with durations outside the physiologic *)
(* range: PR intervals below 0.08 s and QRS durations of zero or less   *)

ExtremeX0s == {0, 10 * Scale}
ExtremeDensities == {875, 1250, 2500}
ExtremePRs == {-100, 0, 40, 79, 80, 160}
ExtremeQRSs == {-80, -40, 0, 80}

ExtremeBeat ==
  /\ pc = "idle"
  /\ pc' = "extreme"
  /\ \E x0 \in ExtremeX0s, d \in ExtremeDensities, pr \in ExtremePRs, qrs \in ExtremeQRSs :
       LET options == [DefaultOptions EXCEPT !.pr = pr, !.qrs = qrs]
       IN  /\ beatIn' = [x0 |-> x0, pxPerSec |-> d, options |-> options]
           /\ beat' = genNormalBeat(x0, d, options)
  /\ UNCHANGED <<kind, cursor, beatIndex, points, draws, win, cropped, path>>
  /\ UNCHANGED gameVars

NextExtreme == ExtremeBeat

SpecExtreme == Init /\ [][NextExtreme]_vars

-----------------------------------------------------------------------------
(* cropPoints and toPath called directly, on arguments drawn from bounded sets *)

MaxLen == 3
MaxCoord == 2

SamplePoints == [x : 0..MaxCoord, y : {Baseline * Scale, Baseline * Scale - 1}]
SampleSeqs == UNION {[1..n -> SamplePoints] : n \in 0..MaxLen}

CropCall ==
  /\ pc = "idle"
  /\ \E pts \in SampleSeqs, start \in 0..MaxCoord, end \in 0..MaxCoord :
       /\ points' = pts
       /\ win' = [start |-> start, end |-> end]
       /\ cropped' = cropPoints(pts, start, end)
  /\ pc' = "called"
  /\ path' = <<>>
  /\ UNCHANGED <<kind, cursor, beatIndex, draws, beatIn, beat>>
  /\ UNCHANGED gameVars

PathCall ==
  /\ pc = "called"
  /\ path' = toPath(cropped)
  /\ pc' = "pathed"
  /\ UNCHANGED <<kind, cursor, beatIndex, points, draws, win, cropped, beatIn, beat>>
  /\ UNCHANGED gameVars

NextCrop == CropCall \/ PathCall

SpecCrop == Init /\ [][NextCrop]_vars

-----------------------------------------------------------------------------
(* useQuiz: the state and the handlers the hook returns *)

\* const total = engine.length
total == Len(engine)

\* const question = engine[index] ?? engine[0], as its answer key
question == IF index + 1 \in DOMAIN engine THEN engine[index + 1] ELSE engine[1]

\* mutant of select: the handler without  if (answered != null) return
selectUnguarded(option) ==
  /\ answered' = option
  /\ correct' = IF option = question THEN correct + 1 ELSE correct
  /\ UNCHANGED <<index, mode, timeLeft, timerOn, pending, engine>>
  /\ UNCHANGED stripVars

\* onPick(optionIndex) of an option button
select(option) ==
  /\ IF answered # Null
     THEN UNCHANGED <<correct, answered>>
     ELSE /\ answered' = option
          /\ correct' = IF option = question THEN correct + 1 ELSE correct
  /\ UNCHANGED <<index, mode, timeLeft, timerOn, pending, engine>>
  /\ UNCHANGED stripVars

\* onClick of the Next button
next ==
  /\ IF index + 1 < total
     THEN /\ index' = index + 1
          /\ answered' = Null
     ELSE UNCHANGED <<index, answered>>
  /\ UNCHANGED <<correct, mode, timeLeft, timerOn, pending, engine>>
  /\ UNCHANGED stripVars

\* onClick of the Restart button and onReset of the header
reset ==
  /\ index' = 0
  /\ correct' = 0
  /\ answered' = Null
  /\ UNCHANGED <<mode, timeLeft, timerOn, pending, engine>>
  /\ UNCHANGED stripVars

\* question sets of one to MaxTotal questions with answer keys 0..MaxAnswer
MaxTotal == 4
MaxAnswer == 1
Engines == UNION {[1..n -> 0..MaxAnswer] : n \in 1..MaxTotal}

InitQuiz ==
  /\ StripIdle
  /\ mode = "practice"
  /\ timeLeft = TIMED_SECONDS
  /\ timerOn = FALSE
  /\ pending = FALSE
  /\ engine \in Engines
  /\ QuizStart

NextQuiz ==
  \/ \E option \in Options : select(option)
  \/ next
  \/ reset

SpecQuiz == InitQuiz /\ [][NextQuiz]_vars

-----------------------------------------------------------------------------
(* EKGExam2Game: mode, question set and countdown.  A handler called from a *)
(* click is one step together with the render and the effects it causes.    *)
(* The change to practice mode made by the time-out effect is committed     *)
(* first and its own effects run in a later task: the commit with effects   *)
(* outstanding is a state of its own (pending).                             *)

Modes == {"practice", "timed"}

\* selection.length < 10: a timed set holds ten questions
TimedCount == 10

\* the question sets useMemo can return for a mode, as answer keys: QUESTIONS
\* itself, or QUESTIONS with all but TimedCount questions left out (the order
\* of a timed set is shuffled; the keys of QUESTIONS are all alike)
questionSets(m) ==
  IF m = "timed"
  THEN {[q \in 1..Min(TimedCount, Len(QUESTIONS)) |->
          QUESTIONS[IF q < drop THEN q ELSE q + 1]] : drop \in DOMAIN QUESTIONS}
  ELSE {QUESTIONS}

\* mutant of ModeEffects: the countdown effect without its cleanup
ModeEffectsNoCleanup(m) ==
  /\ index' = 0
  /\ correct' = 0
  /\ answered' = Null
  /\ timeLeft' = TIMED_SECONDS
  /\ timerOn' = (timerOn \/ m = "timed")
  /\ pending' = FALSE

\* the passive effects after a commit that changed mode to m: the cleanup of
\* the countdown effect (clearInterval), useQuiz's effect on the new engine,
\* and setTimeLeft(TIMED_SECONDS) with, in timed mode, a new interval
ModeEffects(m) ==
  /\ index' = 0
  /\ correct' = 0
  /\ answered' = Null
  /\ timeLeft' = TIMED_SECONDS
  /\ timerOn' = (m = "timed")
  /\ pending' = FALSE

\* setMode(value) from the header's tabs and buttons
setMode(m) ==
  /\ IF m = mode
     THEN UNCHANGED gameVars
     ELSE /\ mode' = m
          /\ engine' \in questionSets(m)
          /\ ModeEffects(m)
  /\ UNCHANGED stripVars

\* the interval callback: setTimeLeft((value) => Math.max(0, value - 1))
Tick ==
  /\ timerOn
  /\ timeLeft' = Max(0, timeLeft - 1)
  /\ UNCHANGED <<mode, timerOn, pending, engine, index, correct, answered>>
  /\ UNCHANGED stripVars

\* the effect on [mode, timeLeft]: if (timeLeft === 0) setMode("practice"),
\* and the render it causes
TimeUp ==
  /\ mode = "timed"
  /\ timeLeft = 0
  /\ mode' = "practice"
  /\ engine' \in questionSets("practice")
  /\ pending' = TRUE
  /\ UNCHANGED <<timeLeft, timerOn, index, correct, answered>>
  /\ UNCHANGED stripVars

\* the effects of that commit run
FlushEffects ==
  /\ pending
  /\ ModeEffects(mode)
  /\ UNCHANGED <<mode, engine>>
  /\ UNCHANGED stripVars

NextGame ==
  \/ \E m \in Modes : setMode(m)
  \/ Tick
  \/ TimeUp
  \/ FlushEffects
  \/ \E option \in Options : select(option)
  \/ next
  \/ reset

\* the interval fires every second while it is registered, and React runs
\* every effect it has scheduled
SpecGame ==
  /\ Init
  /\ [][NextGame]_vars
  /\ WF_vars(Tick)
  /\ WF_vars(TimeUp)
  /\ WF_vars(FlushEffects)

-----------------------------------------------------------------------------
(* Properties of the strip returned by buildStrip *)

Samples == 1..Len(points)
BeatsOf == {points[j].b : j \in Samples}
SegIdx(b, seg) == {j \in Samples : points[j].b = b /\ points[j].seg = seg}
FirstOf(S) == CHOOSE j \in S : \A i \in S : j <= i
FirstX(b, seg) == points[FirstOf(SegIdx(b, seg))].x

\* C1: for every rhythm identifier every sample of the strip buildStrip returns
\* has a time-position x with 0 <= x <= STRIP_WIDTH (750 px)
C1_WithinStripWidth ==
  pc = "built" => \A j \in Samples : 0 <= points[j].x /\ points[j].x <= STRIP_WIDTH * Scale

\* C2: for every rhythm identifier the strip buildStrip returns has
\* non-decreasing time-positions: no sample lies left of its predecessor
C2_NonDecreasing ==
  pc = "built" => \A j \in 1..(Len(points) - 1) : points[j].x <= points[j + 1].x

\* the rate the claim gives each regular sinus-family rhythm
C4_Rate(k) == CASE k = "sinus" -> 75 [] k = "sinus_brady" -> 48 [] k = "sinus_tachy" -> 120

\* C4: for sinus (75), sinus_brady (48) and sinus_tachy (120) the number of
\* beats in the 6-second strip differs from floor(6 / (60 / rate)) by at most 1,
\* beat b starts at x = 10 + (b - 1) * (60 / rate) * 125, and rate 75 yields 7
\* or 8 beats
C4_BeatCount ==
  (pc = "built" /\ kind \in SinusKinds) =>
     LET n == Cardinality(BeatsOf)
         rate == C4_Rate(kind)
     IN  /\ Abs(n - (STRIP_SECONDS * rate) \div 60) <= 1
         /\ BeatsOf = 1..n
         /\ \A b \in BeatsOf :
              rate * (FirstX(b, "P") - 10 * Scale) = (b - 1) * 60 * PX_PER_SEC * Scale
         /\ (kind = "sinus" => n \in {7, 8})

C4_Witness ==
  pc = "built" /\ kind = "sinus_brady" /\ Cardinality(BeatsOf) = 5

\* largest deviation of beat b's QRS samples above the baseline (smaller y)
PeakDeviation(b) ==
  LET devs == {Baseline * Scale - points[j].y : j \in SegIdx(b, "QRS")}
  IN  CHOOSE d \in devs : \A e \in devs : e <= d

\* C5 as stated: in the default sinus strip every beat has a positive QRS
\* spike whose peak deviation from the baseline is within 5% of the amplitude
\* scale 22, i.e. between 20.9 and 23.1 units
C5_PeakWithinFivePercent ==
  (pc = "built" /\ kind = "sinus") =>
     \A b \in BeatsOf :
        /\ SegIdx(b, "QRS") # {}
        /\ 100 * PeakDeviation(b) >= 95 * 22 * Scale
        /\ 100 * PeakDeviation(b) <= 105 * 22 * Scale

\* C5 amended: in the default sinus strip every beat has a positive QRS spike
\* whose peak deviation from the baseline is 1.2 times the amplitude scale,
\* 26.4 units for the default 22
C5_PeakIsShapeTimesAmp ==
  (pc = "built" /\ kind = "sinus") =>
     \A b \in BeatsOf :
        /\ SegIdx(b, "QRS") # {}
        /\ PeakDeviation(b) > 0
        /\ 10 * PeakDeviation(b) = 12 * 22 * Scale

C5_Witness ==
  /\ pc = "built" /\ kind = "sinus" /\ Cardinality(BeatsOf) = 8
  /\ \E j \in Samples : points[j].seg = "QRS" /\ points[j].y < Baseline * Scale - 23 * Scale

\* the end of beat b's P wave: its onset plus the wave's 0.08 s at 125 px/s
PWaveEnd(b) == FirstX(b, "P") + (80 * PX_PER_SEC * Scale) \div 1000

\* C6 as stated: in the firstdeg strip every beat's PR segment, from the end of
\* the P wave to the start of the QRS complex, lasts at least 0.20 s (25 px)
C6_PRSegmentAtLeast200ms ==
  (pc = "built" /\ kind = "firstdeg") =>
     \A b \in BeatsOf :
        FirstX(b, "QRS") - PWaveEnd(b) >= (200 * PX_PER_SEC * Scale) \div 1000

\* C6 amended: in the firstdeg strip every beat's PR interval, from the onset
\* of the P wave to the start of the QRS complex, is 0.26 s (32.5 px), which is
\* at least 0.20 s; the PR segment from the end of the P wave is 0.18 s (22.5 px)
C6_PRIntervalAtLeast200ms ==
  (pc = "built" /\ kind = "firstdeg") =>
     \A b \in BeatsOf :
        /\ FirstX(b, "QRS") - FirstX(b, "P") = (260 * PX_PER_SEC * Scale) \div 1000
        /\ FirstX(b, "QRS") - FirstX(b, "P") >= (200 * PX_PER_SEC * Scale) \div 1000
        /\ FirstX(b, "QRS") - PWaveEnd(b) = (180 * PX_PER_SEC * Scale) \div 1000
        /\ FirstX(b, "PR") = PWaveEnd(b)

C6_Witness ==
  /\ pc = "built" /\ kind = "firstdeg" /\ Cardinality(BeatsOf) = 8
  /\ Cardinality(SegIdx(8, "PR")) = 23

\* C7: in the stemi_inferior strip every ST sample is offset by 6 units to the
\* elevation side of the baseline, the side of the upright P wave and the
\* positive QRS spike (y smaller than 90); in the nstemi strip the ST samples
\* lie on the opposite, depression side
C7_StemiElevated ==
  pc = "built" =>
     /\ kind = "stemi_inferior" =>
          \A j \in Samples :
             /\ points[j].seg = "ST" => points[j].y = Baseline * Scale - 6 * Scale
             /\ points[j].seg = "P" => points[j].y <= Baseline * Scale
     /\ kind = "nstemi" =>
          \A j \in Samples : points[j].seg = "ST" => points[j].y > Baseline * Scale

-----------------------------------------------------------------------------
(* Properties of the crop ZoomStrip takes of the strip *)

\* indices of the strip's samples inside the window handed to cropPoints
Retained == {j \in Samples : points[j].x >= win.start /\ points[j].x <= win.end}

\* C8 as stated: if cropPoints returns at least one sample, the first returned
\* sample has time-position exactly 0
C8_FirstIsZero ==
  (pc = "zoomed" /\ cropped # <<>>) => cropped[1].x = 0

\* C8 amended: if cropPoints returns at least one sample, the first returned
\* sample is the first retained sample translated by the window start: its
\* time-position is (its original x) - start, which is >= 0 and is 0 only when
\* that sample lies exactly on the window start
C8_FirstIsOffsetFromStart ==
  (pc = "zoomed" /\ cropped # <<>>) =>
     /\ Retained # {}
     /\ cropped[1].x = points[FirstOf(Retained)].x - win.start
     /\ cropped[1].y = points[FirstOf(Retained)].y
     /\ cropped[1].x >= 0

C8_Witness ==
  pc = "zoomed" /\ cropped # <<>> /\ cropped[1].x > 0 /\ Len(cropped) < Len(points)

-----------------------------------------------------------------------------
(* Properties of a direct genNormalBeat call *)

\* (0.08 + max(0, pr - 0.08) + qrs + 0.08 + 0.16 + 0.04) * density
SumOfDurations ==
  Px(80 + Max(0, beatIn.options.pr - 80) + beatIn.options.qrs + 80 + 160 + 40,
     beatIn.pxPerSec)

SegRank(seg) ==
  CASE seg = "P" -> 1 [] seg = "PR" -> 2 [] seg = "QRS" -> 3
    [] seg = "ST" -> 4 [] seg = "T" -> 5 [] seg = "R" -> 6

\* the beat starts at x0, runs through P, PR, QRS, ST, T and return-to-baseline
\* in that order with non-decreasing time-positions, and neighbouring samples
\* are never more than one sample step (1 px) apart
BeatContiguous ==
  /\ beat[1].x = beatIn.x0
  /\ beat[1].seg = "P"
  /\ beat[Len(beat)].seg = "R"
  /\ \A j \in 1..(Len(beat) - 1) :
       /\ beat[j].x <= beat[j + 1].x
       /\ beat[j + 1].x - beat[j].x <= Scale
       /\ SegRank(beat[j].seg) <= SegRank(beat[j + 1].seg)

\* C3 as stated: the samples start exactly at x0, are non-decreasing and
\* gap-free through the segments, and their total span (last time-position
\* minus first) equals the sum of the segment durations at the density
C3_SpanEqualsSum ==
  pc = "sampled" =>
     /\ BeatContiguous
     /\ beat[Len(beat)].x - beat[1].x = SumOfDurations

\* C3 amended: the samples start exactly at x0, are non-decreasing and gap-free
\* through the segments, and the last time-position falls short of
\* x0 + (sum of the segment durations) by more than 0 and at most one sample
\* step: sum - 1 <= span < sum
C3_SpanWithinOneStep ==
  pc = "sampled" =>
     /\ BeatContiguous
     /\ beat[Len(beat)].x - beat[1].x < SumOfDurations
     /\ beat[Len(beat)].x - beat[1].x >= SumOfDurations - Scale

C3_Witness ==
  /\ pc = "sampled" /\ beatIn.pxPerSec = 875 /\ beatIn.options.pr = 100
  /\ beatIn.options.qrs = 60 /\ beatIn.x0 = 10 * Scale
  /\ beat[Len(beat)].x = 10 * Scale + 38 * Scale

-----------------------------------------------------------------------------
(* Properties of direct cropPoints and toPath calls *)

\* the index in points of the k-th sample inside the window
KthRetained(k) ==
  CHOOSE j \in Retained : Cardinality({i \in Retained : i <= j}) = k

\* C9: cropPoints returns exactly the input samples whose time-position lies in
\* [start, end], in their original order and with unchanged amplitude, each
\* translated by -start, and every returned time-position is in [0, end - start]
C9_CropIsFilter ==
  pc \in {"called", "pathed"} =>
     /\ Len(cropped) = Cardinality(Retained)
     /\ \A k \in 1..Len(cropped) :
          /\ cropped[k].x = points[KthRetained(k)].x - win.start
          /\ cropped[k].y = points[KthRetained(k)].y
          /\ cropped[k].x >= 0
          /\ cropped[k].x <= win.end - win.start

C9_Witness ==
  /\ pc = "called" /\ Len(points) = 3 /\ Len(cropped) = 2 /\ win.start = 1
  /\ points[1].x = 0 /\ points[2].x = 2 /\ points[3].x = 1
  /\ points[2].y # points[3].y

\* the drawing commands of a path: its tokens other than the separators
Commands(d) == SelectSeq(d, LAMBDA t : t.tok # " ")

\* C10: toPath of an empty sequence is the empty path; toPath of N >= 1 samples
\* has exactly N drawing commands visiting the samples in order, the first a
\* move (M) and each of the other N - 1 a line (L)
C10_PathCommands ==
  pc = "pathed" =>
     /\ cropped = <<>> => path = <<>>
     /\ Len(Commands(path)) = Len(cropped)
     /\ \A k \in 1..Len(cropped) :
          /\ Commands(path)[k].tok = (IF k = 1 THEN "M" ELSE "L")
          /\ Commands(path)[k].args = <<cropped[k].x, cropped[k].y>>

C10_Witness ==
  pc = "pathed" /\ Len(cropped) = 3 /\ Len(path) = 5 /\ path[5].tok = "L"

-----------------------------------------------------------------------------
(* Out-of-range durations handed to genNormalBeat *)

BeatSeg(seg) == {j \in 1..Len(beat) : beat[j].seg = seg}
BeatFirstX(seg) == beat[FirstOf(BeatSeg(seg))].x

\* where the PR segment of the sampled beat ends: x0 + pDuration + prSegment
PRSegmentEnd ==
  beatIn.x0 + pDurationOf(beatIn.pxPerSec) + prSegmentOf(beatIn.options.pr, beatIn.pxPerSec)

\* C11: genNormalBeat returns a beat for out-of-range durations and clamps
\* them to zero-duration segments: for a PR interval below 0.08 s the PR
\* segment has no samples and the next segment starts at the end of the P
\* wave; for a QRS duration of zero or less the QRS complex has no samples and
\* the ST segment starts exactly where the PR segment ended; and the beat's
\* time-positions are non-decreasing
C11_ClampedToZeroDuration ==
  pc = "extreme" =>
    /\ Len(beat) > 0
    /\ beatIn.options.pr < 80 =>
         /\ BeatSeg("PR") = {}
         /\ PRSegmentEnd = beatIn.x0 + pDurationOf(beatIn.pxPerSec)
    /\ beatIn.options.qrs <= 0 =>
         /\ BeatSeg("QRS") = {}
         /\ BeatFirstX("ST") = PRSegmentEnd
    /\ beatIn.options.qrs > 0 => BeatFirstX("QRS") = PRSegmentEnd
    /\ \A j \in 1..(Len(beat) - 1) : beat[j].x <= beat[j + 1].x

\* the same statement for the inputs whose QRS duration is not negative
C11_ClampedUnlessNegativeQRS ==
  beatIn.options.qrs >= 0 => C11_ClampedToZeroDuration

-----------------------------------------------------------------------------
(* Conducted-beat overwrites of genAflutter and genAfib *)

\* the indices the iteration about to run assigns to
PendingWrites ==
  IF pc = "compose" /\ cursor < STRIP_WIDTH * Scale
  THEN CASE kind = "aflutter" ->
              {FlutterIndex(points, cursor, k) : k \in FlutterWindow(STRIP_WIDTH)}
         [] kind = "afib" -> {FibIndex(cursor, k) : k \in FibWindow(cursor, STRIP_WIDTH)}
         [] OTHER -> {}
  ELSE {}

\* the least step of the fibrillation cursor: rand(0.5, 1.1) >= 0.5
MinFibRR == FibRR(500, STRIP_WIDTH)

\* C12: in genAflutter and genAfib called with the strip width every
\* conducted-beat overwrite assigns to an index in 0..width-1 of the baseline
\* already generated, the strip keeps exactly width samples at time-positions
\* 0, 1, ..., width-1 in order, and genAfib's beat loop terminates: its cursor
\* advances by at least 0.1 * width per iteration, so it has left the strip
\* after at most ten iterations
C12_OverwritesInRange ==
  kind \in {"aflutter", "afib"} =>
    /\ \A i \in PendingWrites : 0 <= i /\ i <= STRIP_WIDTH - 1 /\ i + 1 \in DOMAIN points
    /\ Len(points) = STRIP_WIDTH
    /\ \A j \in Samples : points[j].x = (j - 1) * Scale
    /\ kind = "afib" =>
         /\ cursor >= beatIndex * MinFibRR
         /\ beatIndex * MinFibRR >= STRIP_WIDTH * Scale => cursor >= STRIP_WIDTH * Scale
         /\ beatIndex <= CeilDiv(STRIP_WIDTH * Scale, MinFibRR)

\* a finished afib strip whose last beat was cut short by the strip boundary
\* and reached the last sample
C12_Witness ==
  /\ pc = "built"
  /\ kind = "afib"
  /\ points[STRIP_WIDTH].b = beatIndex
  /\ Cardinality(SegIdx(beatIndex, "beat")) < Cardinality(FibWindowUnguarded(0, STRIP_WIDTH))

-----------------------------------------------------------------------------
(* The quiz engine *)

QuizInv ==
  /\ 0 <= index /\ index < total
  /\ correct <= index + 1 /\ index + 1 <= total
  /\ answered = Null => correct < index + 1

\* what one step may do to the quiz state
Answers ==
  /\ answered = Null /\ answered' \in Options
  /\ index' = index
  /\ correct' = IF answered' = question THEN correct + 1 ELSE correct
Advances ==
  /\ index + 1 < total
  /\ index' = index + 1 /\ answered' = Null /\ correct' = correct
Restarts == index' = 0 /\ correct' = 0 /\ answered' = Null

QuizStep ==
  /\ Answers \/ Advances \/ Restarts \/ UNCHANGED <<index, correct, answered>>
  /\ (\E option \in Options : select(option)) /\ answered # Null
       => UNCHANGED <<index, correct, answered>>
  /\ next => IF index + 1 < total THEN Advances ELSE UNCHANGED <<index, correct, answered>>
  /\ reset => Restarts

\* C13: after any sequence of select, next and reset on a question set of
\* total >= 1 questions, 0 <= index < total and correct <= index + 1 <= total,
\* with correct < index + 1 while the current question is unanswered; select
\* changes nothing while the current question is answered, so the score rises
\* at most once per question; next advances index by one and clears the answer
\* only when index + 1 < total; reset returns to index 0, correct 0, unanswered
C13_QuizInvariants == []QuizInv /\ [][QuizStep]_vars

\* every question of a set of at least two has been answered correctly
C13_Witness ==
  /\ total >= 2
  /\ index = total - 1
  /\ answered # Null
  /\ correct = total

-----------------------------------------------------------------------------
(* The countdown of a timed session *)

\* the quiz and the countdown as they are once practice mode has settled
Restored ==
  /\ timeLeft = TIMED_SECONDS
  /\ ~timerOn
  /\ index = 0 /\ correct = 0 /\ answered = Null

TimeInv ==
  /\ timeLeft \in 0..TIMED_SECONDS
  /\ mode = "practice" /\ ~pending => timeLeft = TIMED_SECONDS /\ ~timerOn

TimeStep ==
  /\ timeLeft' < timeLeft => mode = "timed" /\ timeLeft' = timeLeft - 1
  /\ (mode = "timed" \/ pending) /\ mode' = "practice" /\ ~pending' => Restored'

\* C14: under any interleaving of ticks, mode switches and quiz actions,
\* timeLeft stays in 0..180 and decreases only while mode is "timed"; with
\* ticks that keep firing every timed session eventually returns to practice
\* mode, and once practice mode has settled the interval is cleared, timeLeft
\* is back at 180 and the quiz is at index 0, correct 0, unanswered
C14_TimedSessionEnds ==
  /\ []TimeInv
  /\ [][TimeStep]_vars
  /\ (mode = "timed" ~> mode = "practice")
  /\ (pending ~> ~pending)

\* the countdown has run out with a score on the board: practice mode is
\* committed and its effects are outstanding
C14_Witness ==
  /\ mode = "practice"
  /\ pending
  /\ timeLeft = 0
  /\ correct > 0

====
